---- MODULE Spec2Model ----
(***************************************************************************)
(* State-machine model of the board-game booking bot (src/main.py): the    *)
(* three tables of the SQLite store, the per-identity creation wizard kept *)
(* in context.user_data, the callback handlers book_game, cancel_booking,  *)
(* delete_game, game_details and show_upcoming_games, the routing of       *)
(* main(), and the reminder jobs of the job queue.                         *)
(*                                                                         *)
(* Scheduling: the handlers are coroutines on one event loop.  A coroutine *)
(* is suspended only at an await; every db.execute_query/execute_update is *)
(* a blocking call.  Each action below is therefore one await-free segment *)
(* of a callback handler or of a job, and the segments of different        *)
(* callbacks and jobs interleave freely.  The messages of the wizard are   *)
(* handled whole and in arrival order.                                     *)
(***************************************************************************)
EXTENDS Integers, FiniteSets, Sequences, TLC

(***************************************************************************)
(* Bounds of the model.                                                    *)
(***************************************************************************)
NumUsers == 3
MaxGames == 2
MaxCap == 2
MaxTime == 3
ObservedGames == 1
TimerGames == 1
MaxJobs == 3
NumAuthors == 2
MaxUtcOffset == 1

Users == 1..NumUsers
GameIds == 1..MaxGames

(***************************************************************************)
(* Program constants.  Time is counted in hours.                           *)
(***************************************************************************)
DayOffset == 24
HourOffset == 1

(***************************************************************************)
(* Texts.  A message text is a pair <<kind, n>>: the kind says what the    *)
(* parsers of the wizard make of it, n is its payload.                     *)
(*   <<"word", n>>   free text, neither a date nor an integer              *)
(*   <<"date", d>>   text in the format DD.MM.YYYY HH:MM naming hour d     *)
(*   <<"int", n>>    decimal integer n                                     *)
(*   <<"/skip", 0>>, <<"/SKIP", 0>>   the skip sentinel, in two spellings  *)
(*   <<"None", 0>>   no text at all (a photo message)                      *)
(*   <<"", 0>>       the empty string                                      *)
(***************************************************************************)
NoText == <<"None", 0>>
EmptyText == <<"", 0>>
SkipText == <<"/skip", 0>>
NoPhoto == <<"None", 0>>

\* Marker of a key that is absent from user_data.
Missing == <<"missing", 0>>

\* str.lower() of a message text (line 203); None has no such method.
lower(t) == IF t[1] = "/SKIP" THEN SkipText ELSE t

\* datetime.strptime(text, '%d.%m.%Y %H:%M') (line 212): the hour named, or
\* ValueError.
ValueError == <<"ValueError", 0>>
strptime_display_any(t) == <<"datetime", t[2]>>
strptime_display(t) == IF t[1] = "date" THEN <<"datetime", t[2]>> ELSE ValueError

\* int(text) (line 221).
int_of(t) == IF t[1] = "int" THEN t ELSE ValueError

\* datetime.strftime(DATE_FORMAT) (line 257) and strptime(.., DATE_FORMAT)
\* (lines 525, 558): the canonical stored text of an hour and its reading.
strftime(dt) == <<"stored", dt[2]>>
strptime(s) == IF s[1] = "stored" THEN s[2] ELSE -1

VARIABLES
    games,        \* table games: id -> row
    players,      \* table players: set of <<game_id, user_id>> (the primary key)
    reminders,    \* table reminders: set of rows
    next_id,      \* AUTOINCREMENT: the next id of table games
    user_data,    \* context.user_data of each identity
    jobs,         \* the job queue: pending run_once jobs
    has_job_queue,\* whether context.job_queue is set
    now,          \* the clock, in hours
    fanout,       \* notification loops in progress
    last,         \* the last answer given by a handler
    fired,        \* history: how often send_reminder got past its existence check, per job name
    armed,        \* history: when schedule_reminders ran for a game, and the start time it read
    inflight,     \* join callbacks suspended at their first await
    race,         \* observer of a race of join callbacks
    seq,          \* observer of a join, cancel, join sequence
    gone,         \* observer of the jobs that outlive their event
    fed,          \* observer of the last input of the wizard and what it did
    run,          \* observer of a wizard run fed with valid input and two skips
    listed,       \* observer of the last list of upcoming events
    sent          \* observer of one notification loop

store == <<games, players, reminders, next_id>>
timer == <<jobs, now, fired, armed>>
watch == <<gone, fed, run, listed, sent>>
observers == <<race, seq, watch>>
vars == <<games, players, reminders, next_id, user_data, jobs, has_job_queue,
          now, fanout, last, fired, armed, inflight, race, seq,
          gone, fed, run, listed, sent>>

(***************************************************************************)
(* Queries of the store.                                                   *)
(***************************************************************************)
NoGame == [found |-> FALSE]

\* SELECT COUNT(*) FROM players WHERE game_id = g
current_players(g) == Cardinality({p \in players : p[1] = g})

\* get_game_info: the row with the participant count, or None.
get_game_info(g) ==
    IF g \in DOMAIN games
    THEN [found |-> TRUE,
          game_name |-> games[g].game_name,
          game_date |-> games[g].game_date,
          max_players |-> games[g].max_players,
          description |-> games[g].description,
          photo_id |-> games[g].photo_id,
          current_players |-> current_players(g)]
    ELSE NoGame

\* get_game_participants: the user ids of the players of g.
get_game_participants(g) == {p[2] : p \in {q \in players : q[1] = g}}

is_user_creator_any(g, u) == g \in DOMAIN games
is_user_creator(g, u) == g \in DOMAIN games /\ games[g].creator_id = u

is_user_joined(g, u) == <<g, u>> \in players

Answer(op, u, g, res) == [op |-> op, user |-> u, game |-> g, res |-> res]
NoAnswer == Answer("none", 0, 0, "none")


(***************************************************************************)
(* The reminder scheduler.                                                 *)
(***************************************************************************)
Kinds == {"1day", "1hour"}
Offset(k) == IF k = "1day" THEN DayOffset ELSE HourOffset

\* job_queue.run_once(callback=send_reminder, when, data, name): one more
\* pending job.  Jobs are not keyed by name: copy tells apart jobs that
\* agree in everything else.
run_once(jbs, k, g, when) ==
    LET used == {j.copy : j \in {i \in jbs : i.kind = k /\ i.data = g}}
        free == CHOOSE n \in 0..Cardinality(used) : n \notin used
    IN jbs \cup {[kind |-> k, data |-> g, when |-> when, copy |-> free]}

\* The arming test of one offset (lines 529-530, 539-540).
in_future_or_now(when, t) == when >= t
in_future(when, t) == when > t

arm(jbs, k, g, gms, t) ==
    IF in_future(strptime(gms[g].game_date) - Offset(k), t)
    THEN run_once(jbs, k, g, strptime(gms[g].game_date) - Offset(k))
    ELSE jbs

\* schedule_reminders(game_id, job_queue) at time t, on the games table gms:
\* the job queue afterwards.
schedule_reminders(jbs, g, gms, t) ==
    IF g \notin DOMAIN gms
    THEN jbs
    ELSE arm(arm(jbs, "1day", g, gms, t), "1hour", g, gms, t)

(***************************************************************************)
(* The creation wizard.                                                    *)
(***************************************************************************)
EmptyUserData ==
    [action |-> "None", game_name |-> Missing, game_date |-> Missing,
     max_players |-> Missing, description |-> Missing, photo_id |-> Missing]

\* dict.get(key, default)
get(v, default) == IF v = Missing THEN default ELSE v

\* The routing of main(): a text that is not a command, or a photo.  Whether
\* a text counts as a command is decided by the entities the transport
\* attaches to the message, not by the text: m.command carries that flag.
Routed(m) == (m.text # NoText /\ ~m.command) \/ m.photo # NoPhoto

\* create_game_step1: the callback 'create_game'.
create_game_step1(u) ==
    /\ user_data' = [user_data EXCEPT ![u].action = "creating_game"]
    /\ last' = Answer("create_game", u, 0, "Prompt")
    /\ UNCHANGED <<store, timer, has_job_queue, fanout, inflight>>

\* The id of a new row of table games (line 40): with AUTOINCREMENT it is
\* one more than the largest id ever assigned; without, one more than the
\* largest id in the table.
Max(S) == CHOOSE n \in S : \A k \in S : k <= n
new_rowid_max(gms, nid) == IF DOMAIN gms = {} THEN 1 ELSE Max(DOMAIN gms) + 1
new_rowid(gms, nid) == nid

\* The write of a store operation that raises, counted from 1; 0 for none.
NoFault == 0

\* The finally clause of create_game_in_db (lines 279-280).
finally_clear_if(ud, done) == IF done THEN EmptyUserData ELSE ud
finally_clear(ud, done) == EmptyUserData

\* create_game_in_db on the user_data ud of identity u: the two inserts, each
\* committed on its own (lines 84-90), the arming of the reminders, and the
\* clearing of user_data in the finally clause.  A key missing from
\* user_data raises KeyError before any write; write fault raises, if any.
create_game_in_db(u, ud, fault) ==
    LET id == new_rowid(games, next_id)
        has_game == ud.game_name # Missing /\ ud.game_date # Missing /\ fault # 1
        has_player == has_game /\ fault # 2
    IN
    /\ user_data' = [user_data EXCEPT ![u] = finally_clear(ud, has_player)]
    /\ IF has_game
       THEN /\ games' = [g \in DOMAIN games \cup {id} |->
                           IF g = id
                           THEN [game_name |-> ud.game_name,
                                 game_date |-> strftime(ud.game_date),
                                 creator_id |-> u,
                                 max_players |-> get(ud.max_players, <<"int", 0>>)[2],
                                 description |-> get(ud.description, EmptyText),
                                 photo_id |-> get(ud.photo_id, NoPhoto)]
                           ELSE games[g]]
            /\ next_id' = id + 1
       ELSE UNCHANGED <<games, next_id>>
    /\ IF has_player
       THEN /\ players' = players \cup {<<id, u>>}
            /\ jobs' = IF has_job_queue
                       THEN schedule_reminders(jobs, id, games', now)
                       ELSE jobs
            /\ armed' = IF has_job_queue
                        THEN [armed EXCEPT ![id] =
                                 [at |-> now, date |-> strptime(games'[id].game_date)]]
                        ELSE armed
            /\ last' = Answer("create", u, id, "Ok")
       ELSE /\ last' = Answer("create", u, 0, "Error")
            /\ UNCHANGED <<players, jobs, armed>>
    /\ UNCHANGED <<reminders, now, fired, has_job_queue, fanout, inflight>>

\* A wizard step that only writes user_data and prompts.
Step(u, ud, res) ==
    /\ user_data' = [user_data EXCEPT ![u] = ud]
    /\ last' = Answer("message", u, 0, res)
    /\ UNCHANGED <<store, timer, has_job_queue, fanout, inflight>>

\* handle_message for a message m of identity u; fault is the write of
\* create_game_in_db that raises.
handle_message(u, m, fault) ==
    LET ud == user_data[u]
        action == ud.action
    IN
    IF m.text = NoText
    THEN \* line 203: None has no lower(): the handler raises
         /\ last' = Answer("message", u, 0, "Raised")
         /\ UNCHANGED <<store, timer, user_data, has_job_queue, fanout, inflight>>
    ELSE
    LET text == lower(m.text) IN
    IF action = "creating_game"
    THEN Step(u, [ud EXCEPT !.game_name = m.text, !.action = "setting_game_date"],
              "AskDate")
    ELSE IF action = "setting_game_date"
    THEN IF strptime_display(m.text) # ValueError
         THEN Step(u, [ud EXCEPT !.game_date = strptime_display(m.text),
                                 !.action = "setting_max_players"], "AskMax")
         ELSE Step(u, ud, "BadDate")
    ELSE IF action = "setting_max_players"
    THEN IF int_of(m.text) # ValueError /\ int_of(m.text)[2] >= 0
         THEN Step(u, [ud EXCEPT !.max_players = int_of(m.text),
                                 !.action = "setting_description"], "AskDescription")
         ELSE Step(u, ud, "BadNumber")
    ELSE IF action = "setting_description" /\ text # SkipText
    THEN Step(u, [ud EXCEPT !.description = m.text, !.action = "setting_photo"],
              "AskPhoto")
    ELSE IF action = "setting_photo" /\ m.photo # NoPhoto /\ text # SkipText
    THEN create_game_in_db(u, [ud EXCEPT !.photo_id = m.photo], fault)
    ELSE IF action = "setting_photo" /\ text # SkipText
    THEN Step(u, ud, "AskPhotoAgain")
    ELSE create_game_in_db(u, ud, fault)


\* A notification loop over the recipients todo of task; a loop over nobody
\* ends at once.
start_fanout(fo, task) == IF task.todo = {} THEN fo ELSE fo \cup {task}

(***************************************************************************)
(* The callback handlers.                                                  *)
(***************************************************************************)
\* The capacity test of book_game (line 365).
no_seats_above(max_players, current) == max_players > 0 /\ current > max_players
no_seats_any_cap(max_players, current) == current >= max_players
no_seats(max_players, current) == max_players > 0 /\ current >= max_players

\* DELETE FROM players WHERE game_id = g AND user_id = u (line 412).
delete_player_lost(ps, g, u) == ps
delete_player(ps, g, u) == ps \ {<<g, u>>}

\* book_game up to its first await (lines 349-354): the callback is
\* dispatched and suspended in query.answer().
book_arrive(u, g) ==
    /\ <<u, g>> \notin inflight
    /\ inflight' = inflight \cup {<<u, g>>}
    /\ UNCHANGED <<store, timer, user_data, has_job_queue, fanout, last>>

\* book_game from the existence check to the insert (lines 356-377): no
\* await in between.  The notification of the creator and the rendering that
\* follow write nothing.
book_game(u, g) ==
    LET game == get_game_info(g) IN
    /\ inflight' = inflight \ {<<u, g>>}
    /\ IF ~game.found
       THEN /\ last' = Answer("join", u, g, "NotFound")
            /\ UNCHANGED players
       ELSE IF no_seats(game.max_players, game.current_players)
       THEN /\ last' = Answer("join", u, g, "Full")
            /\ UNCHANGED players
       ELSE IF is_user_joined(g, u)
       THEN /\ last' = Answer("join", u, g, "AlreadyJoined")
            /\ UNCHANGED players
       ELSE /\ players' = players \cup {<<g, u>>}
            /\ last' = Answer("join", u, g, "Ok")
    /\ UNCHANGED <<games, reminders, next_id, timer, user_data, has_job_queue, fanout>>

\* cancel_booking (lines 406-412): the membership test and the delete.
cancel_booking(u, g) ==
    /\ IF ~is_user_joined(g, u)
       THEN /\ last' = Answer("cancel", u, g, "NotJoined")
            /\ UNCHANGED players
       ELSE /\ players' = delete_player(players, g, u)
            /\ last' = Answer("cancel", u, g, "Ok")
    /\ UNCHANGED <<games, reminders, next_id, timer, user_data, has_job_queue,
                   fanout, inflight>>

\* delete_game (lines 442-461): the creator test, the reading of the
\* participants, the three deletes, each committed on its own; write fault
\* raises, if any, and the handler answers with its error text.  The
\* notification loop that follows (lines 464-472) runs as a fan-out over the
\* participants other than the requester.
delete_game(u, g, fault) ==
    /\ IF ~is_user_creator(g, u)
       THEN /\ last' = Answer("delete", u, g, "NotCreator")
            /\ UNCHANGED <<games, players, reminders, fanout>>
       ELSE IF ~get_game_info(g).found
       THEN /\ last' = Answer("delete", u, g, "NotFound")
            /\ UNCHANGED <<games, players, reminders, fanout>>
       ELSE /\ games' = IF fault = 1
                        THEN games
                        ELSE [h \in DOMAIN games \ {g} |-> games[h]]
            /\ players' = IF fault \in {1, 2}
                          THEN players
                          ELSE {p \in players : p[1] # g}
            /\ reminders' = IF fault \in {1, 2, 3}
                            THEN reminders
                            ELSE {r \in reminders : r.game_id # g}
            /\ fanout' = IF fault # NoFault
                         THEN fanout
                         ELSE start_fanout(fanout,
                                  [kind |-> "deleted", game |-> g, copy |-> 0,
                                   todo |-> get_game_participants(g) \ {u}])
            /\ last' = Answer("delete", u, g,
                               IF fault # NoFault THEN "Error" ELSE "Ok")
    /\ UNCHANGED <<next_id, timer, user_data, has_job_queue, inflight>>

\* game_details (lines 289-294): the lookup; the rendering writes nothing.
game_details(u, g) ==
    /\ last' = Answer("get", u, g, IF get_game_info(g).found THEN "Ok" ELSE "NotFound")
    /\ UNCHANGED <<store, timer, user_data, has_job_queue, fanout, inflight>>

\* The WHERE clause of show_upcoming_games (line 167): the stored start time
\* against datetime('now') of SQLite, which is the clock in UTC.
upcoming(utcnow) == {g \in DOMAIN games : strptime(games[g].game_date) >= utcnow}

\* ORDER BY game_date (line 168): the orders in which the rows S may come
\* back, rows with equal start times in any order.
Orderings(S) ==
    {s \in [1..Cardinality(S) -> S] :
        /\ \A i, j \in DOMAIN s : i # j => s[i] # s[j]
        /\ \A i, j \in DOMAIN s :
              i < j => strptime(games[s[i]].game_date) <= strptime(games[s[j]].game_date)}

\* show_upcoming_games (lines 158-189) when SQLite's clock reads utcnow; the
\* keyboard has one button per row, in the order of the rows.
show_upcoming_games(u, utcnow) ==
    /\ last' = Answer("list", u, 0, IF upcoming(utcnow) = {} THEN "Empty" ELSE "Ok")
    /\ UNCHANGED <<store, timer, user_data, has_job_queue, fanout, inflight>>

(***************************************************************************)
(* Jobs and notification loops.                                            *)
(***************************************************************************)
\* send_reminder (lines 551-570): the job leaves the queue, the event is
\* looked up again, the participants are read; the deliveries follow.
send_reminder(j) ==
    /\ j \in jobs
    /\ j.when <= now
    /\ jobs' = jobs \ {j}
    /\ IF ~get_game_info(j.data).found
       THEN UNCHANGED <<fired, fanout>>
       ELSE /\ fired' = [fired EXCEPT ![<<j.kind, j.data>>] = @ + 1]
            /\ fanout' = start_fanout(fanout,
                   [kind |-> j.kind, game |-> j.data, copy |-> j.copy,
                    todo |-> get_game_participants(j.data)])
    /\ UNCHANGED <<store, now, armed, user_data, has_job_queue, last, inflight>>

\* The recipients left after the send_message to r, which succeeded (ok) or
\* raised: the except clause is inside the loop (lines 572-579, 466-472).
remaining_abort(todo, r, ok) == IF ok THEN todo \ {r} ELSE {}
remaining(todo, r, ok) == todo \ {r}

\* One turn of a notification loop (lines 571-579, 464-472): one send_message,
\* which succeeds or raises; either way the loop goes on.
deliver(t, r, ok) ==
    /\ t \in fanout
    /\ r \in t.todo
    /\ fanout' = (fanout \ {t}) \cup
                 (IF remaining(t.todo, r, ok) = {}
                  THEN {}
                  ELSE {[t EXCEPT !.todo = remaining(t.todo, r, ok)]})
    /\ UNCHANGED <<store, timer, user_data, has_job_queue, last, inflight>>

\* The clock: an hour passes, or time moves on to the fire-time of a job.
Tick ==
    /\ now < MaxTime
    /\ now' = now + 1
    /\ UNCHANGED <<store, jobs, fired, armed, user_data, has_job_queue, fanout,
                   last, inflight>>

Jump(j) ==
    /\ j \in jobs
    /\ j.when > now
    /\ now' = j.when
    /\ UNCHANGED <<store, jobs, fired, armed, user_data, has_job_queue, fanout,
                   last, inflight>>


(***************************************************************************)
(* The initial state: empty tables, no wizard in progress, an empty job    *)
(* queue (or none at all), the clock at hour 0.                            *)
(***************************************************************************)
NoRace == [game |-> 0, cap |-> 0, start |-> 0, n |-> 0, news |-> 0,
           ok |-> 0, full |-> 0, dup |-> 0, void |-> FALSE]
NoSeq == [user |-> 0, game |-> 0, stage |-> 0, before |-> 0,
          ok1 |-> FALSE, okc |-> FALSE, ok2 |-> FALSE]

NotArmed == [at |-> -1, date |-> -1]

NoFed == [user |-> 0, text |-> NoText, photo |-> NoPhoto, routed |-> FALSE,
          fault |-> NoFault, at |-> 0, before |-> "None", after |-> "None",
          same |-> TRUE, cleared |-> FALSE, tried |-> FALSE, answer |-> "none",
          made |-> << >>, joined |-> {}, jobbed |-> {}]
NoRun == [user |-> 0, stage |-> 0, ids |-> 0, cap |-> 0]
NoList == [at |-> 0, ids |-> << >>, table |-> << >>]
NoLoop == [key |-> <<"none", 0, 0>>, rcpts |-> {}, tried |-> [r \in Users |-> 0],
           failed |-> {}, later |-> 0, done |-> FALSE, stale |-> {}]

Init ==
    /\ games = << >>
    /\ players = {}
    /\ reminders = {}
    /\ next_id = 1
    /\ user_data = [u \in Users |-> EmptyUserData]
    /\ jobs = {}
    /\ has_job_queue \in BOOLEAN
    /\ now = 0
    /\ fanout = {}
    /\ last = NoAnswer
    /\ fired = [n \in Kinds \X (1..(MaxGames + 1)) |-> 0]
    /\ armed = [g \in 1..(MaxGames + 1) |-> NotArmed]
    /\ inflight = {}
    /\ race = NoRace
    /\ seq = NoSeq
    /\ gone = {}
    /\ fed = NoFed
    /\ run = NoRun
    /\ listed = NoList
    /\ sent = NoLoop

(***************************************************************************)
(* The inputs of the environment.                                          *)
(***************************************************************************)
TextMessage(t) == [text |-> t, photo |-> NoPhoto, command |-> FALSE]

\* A text that the transport marks as a bot command: it starts with a slash.
CommandMessage(t) == [text |-> t, photo |-> NoPhoto, command |-> TRUE]

\* A photo message: it has a photo and no text.
Photo == <<"photo", 1>>
PhotoMessage == [text |-> NoText, photo |-> Photo, command |-> FALSE]

\* A date far enough ahead for both reminders to be armed at any hour of
\* the clock.
FarDate == MaxTime + DayOffset + 2

\* The valid input of each step of the wizard, with start times from dates
\* and capacities from caps, and the skip sentinel at the last two steps.
ValidInput(action, dates, caps) ==
    IF action = "creating_game" THEN {TextMessage(<<"word", 1>>)}
    ELSE IF action = "setting_game_date"
         THEN {TextMessage(<<"date", d>>) : d \in dates}
    ELSE IF action = "setting_max_players"
         THEN {TextMessage(<<"int", c>>) : c \in caps}
    ELSE IF action \in {"setting_description", "setting_photo"}
         THEN {TextMessage(SkipText)}
    ELSE {}

NoWizard == \A v \in Users : user_data[v].action = "None"

\* One wizard at a time, fed with valid input, until MaxGames events exist.
StartWizardUpTo(n) ==
    \E u \in Users :
        /\ NoWizard
        /\ next_id <= n
        /\ create_game_step1(u)

StartWizard == StartWizardUpTo(MaxGames)

FeedWizardWith(dates, caps) ==
    \E u \in Users : \E m \in ValidInput(user_data[u].action, dates, caps) :
        /\ Routed(m)
        /\ handle_message(u, m, NoFault)

FeedWizard == FeedWizardWith({FarDate}, 0..MaxCap)

Join == \E u \in Users, g \in GameIds : book_game(u, g)
Cancel == \E u \in Users, g \in GameIds : cancel_booking(u, g)
Delete == \E u \in Users, g \in GameIds : delete_game(u, g, NoFault)
Lookup == \E u \in Users, g \in GameIds : game_details(u, g)
Deliver == \E t \in fanout : \E r \in t.todo : \E ok \in BOOLEAN : deliver(t, r, ok)

(***************************************************************************)
(* Spec: the event store under creation, join, cancel, delete and lookup   *)
(* requests of all identities, the clock standing still.                   *)
(***************************************************************************)
Next ==
    \/ StartWizard /\ UNCHANGED observers
    \/ FeedWizard /\ UNCHANGED observers
    \/ Join /\ UNCHANGED observers
    \/ Cancel /\ UNCHANGED observers
    \/ Delete /\ UNCHANGED observers
    \/ Lookup /\ UNCHANGED observers
    \/ Deliver /\ UNCHANGED observers

Spec == Init /\ [][Next]_vars


(***************************************************************************)
(* SpecRace: Spec with join callbacks in flight.  A race is a batch of join*)
(* callbacks on one event that are all suspended in their first await      *)
(* before the first of them runs on; the callbacks then run on in any      *)
(* order, interleaved with every other request.  race records the event,   *)
(* its capacity and participant count when the race began, the number n of *)
(* callbacks, how many of them came from identities that had not joined,   *)
(* and the answers given.  A race is void once a request outside the race  *)
(* changes the event or its participants while callbacks are in flight;    *)
(* the record of a finished race is dropped at the next request.           *)
(***************************************************************************)
Answered(rc) == rc.ok + rc.full + rc.dup

VoidRace == [NoRace EXCEPT !.void = TRUE]

RaceArrive(u, g) ==
    LET new == IF is_user_joined(g, u) THEN 0 ELSE 1 IN
    IF g \notin DOMAIN games
    THEN VoidRace
    ELSE IF inflight = {}
    THEN [game |-> g, cap |-> games[g].max_players,
          start |-> current_players(g), n |-> 1, news |-> new,
          ok |-> 0, full |-> 0, dup |-> 0, void |-> FALSE]
    ELSE [race EXCEPT !.n = @ + 1, !.news = @ + new]

RaceJoin(u, g) ==
    IF race.void
    THEN race
    ELSE IF <<u, g>> \in inflight
    THEN IF last'.res = "Ok" THEN [race EXCEPT !.ok = @ + 1]
         ELSE IF last'.res = "Full" THEN [race EXCEPT !.full = @ + 1]
         ELSE IF last'.res = "AlreadyJoined" THEN [race EXCEPT !.dup = @ + 1]
         ELSE VoidRace
    ELSE IF inflight = {}
    THEN NoRace
    ELSE IF players' # players
    THEN VoidRace
    ELSE race

RaceOther ==
    IF race.void
    THEN race
    ELSE IF inflight = {}
    THEN NoRace
    ELSE IF players' # players \/ games' # games
    THEN VoidRace
    ELSE race

\* A callback joins the race while no callback of the race has run on.
RaceOpen(g) == inflight = {} \/ (race.game = g /\ Answered(race) = 0)

RaceIds == 1..ObservedGames

Arrive ==
    \E u \in Users, g \in RaceIds :
        /\ RaceOpen(g)
        /\ book_arrive(u, g)
        /\ race' = RaceArrive(u, g)
        /\ UNCHANGED <<seq, watch>>

JoinInRace ==
    \E u \in Users, g \in RaceIds :
        /\ book_game(u, g)
        /\ race' = RaceJoin(u, g)
        /\ UNCHANGED <<seq, watch>>

CancelInRace ==
    \E u \in Users, g \in RaceIds :
        /\ cancel_booking(u, g)
        /\ race' = RaceOther
        /\ UNCHANGED <<seq, watch>>

DeleteInRace ==
    \E u \in Users, g \in RaceIds :
        /\ delete_game(u, g, NoFault)
        /\ race' = RaceOther
        /\ UNCHANGED <<seq, watch>>

NextRace ==
    \/ StartWizardUpTo(ObservedGames) /\ race' = RaceOther /\ UNCHANGED <<seq, watch>>
    \/ FeedWizard /\ race' = RaceOther /\ UNCHANGED <<seq, watch>>
    \/ Arrive
    \/ JoinInRace
    \/ CancelInRace
    \/ DeleteInRace
    \/ Deliver /\ UNCHANGED observers

SpecRace == Init /\ [][NextRace]_vars

RaceDone == race.game # 0 /\ inflight = {} /\ ~race.void


(***************************************************************************)
(* SpecSeq: Spec with an observer of the sequence join, cancel, join of one*)
(* identity on one event.  The observation starts at a join of an identity *)
(* that has not joined an existing event with a free seat; it records the  *)
(* participant count before that join and the answers; any other request   *)
(* in between ends it.                                                     *)
(***************************************************************************)
SeqJoin(u, g) ==
    IF seq.stage = 2 /\ seq.user = u /\ seq.game = g
    THEN [seq EXCEPT !.stage = 3, !.ok2 = (last'.res = "Ok")]
    ELSE IF /\ g \in DOMAIN games
            /\ ~is_user_joined(g, u)
            /\ ~no_seats(games[g].max_players, current_players(g))
    THEN [user |-> u, game |-> g, stage |-> 1, before |-> current_players(g),
          ok1 |-> (last'.res = "Ok"), okc |-> FALSE, ok2 |-> FALSE]
    ELSE NoSeq

SeqCancel(u, g) ==
    IF seq.stage = 1 /\ seq.user = u /\ seq.game = g
    THEN [seq EXCEPT !.stage = 2, !.okc = (last'.res = "Ok")]
    ELSE NoSeq

JoinInSeq ==
    \E u \in Users, g \in RaceIds :
        /\ book_game(u, g)
        /\ seq' = SeqJoin(u, g)
        /\ UNCHANGED <<race, watch>>

CancelInSeq ==
    \E u \in Users, g \in RaceIds :
        /\ cancel_booking(u, g)
        /\ seq' = SeqCancel(u, g)
        /\ UNCHANGED <<race, watch>>

DeleteInSeq ==
    \E u \in Users, g \in RaceIds :
        /\ delete_game(u, g, NoFault)
        /\ seq' = NoSeq
        /\ UNCHANGED <<race, watch>>

NextSeq ==
    \/ StartWizardUpTo(ObservedGames) /\ seq' = NoSeq /\ UNCHANGED <<race, watch>>
    \/ FeedWizard /\ seq' = NoSeq /\ UNCHANGED <<race, watch>>
    \/ JoinInSeq
    \/ CancelInSeq
    \/ DeleteInSeq
    \/ Deliver /\ UNCHANGED observers

SpecSeq == Init /\ [][NextSeq]_vars

(***************************************************************************)
(* SpecTimer: the reminder scheduler.  Events are created while the clock  *)
(* runs, with start times that lie an hour or a day and an hour after the  *)
(* hours 0 and 1, so that at the hour of creation each offset may lie in   *)
(* the past, at the present hour or in the future; events are joined and   *)
(* deleted, jobs fire when they are due.                                   *)
(***************************************************************************)
TimerDates == {HourOffset + 1, DayOffset + 1, DayOffset + 2}

Fire == \E j \in jobs : send_reminder(j)
Advance == Tick \/ \E j \in jobs : Jump(j)

NextTimer ==
    \/ StartWizardUpTo(TimerGames) /\ UNCHANGED observers
    \/ FeedWizardWith(TimerDates, {0}) /\ UNCHANGED observers
    \/ Delete /\ UNCHANGED observers
    \/ Fire /\ UNCHANGED observers
    \/ Deliver /\ UNCHANGED observers
    \/ Advance /\ UNCHANGED observers

SpecTimer == Init /\ [][NextTimer]_vars

\* The clock goes on and the job queue runs every job that is due.
SpecTimerFair ==
    /\ SpecTimer
    /\ WF_vars(Fire /\ UNCHANGED observers)
    /\ WF_vars(Advance /\ UNCHANGED observers)

(***************************************************************************)
(* SpecRearm: SpecTimer, with schedule_reminders also invoked again for an *)
(* event that exists.                                                      *)
(***************************************************************************)
rearm(g) ==
    /\ g \in DOMAIN games
    /\ has_job_queue
    /\ jobs' = schedule_reminders(jobs, g, games, now)
    /\ UNCHANGED <<store, now, fired, armed, user_data, has_job_queue, fanout,
                   last, inflight>>

Rearm ==
    \E g \in GameIds :
        /\ Cardinality({j \in jobs : j.data = g}) < MaxJobs
        /\ rearm(g)

NextRearm ==
    \/ NextTimer
    \/ Rearm /\ UNCHANGED observers

SpecRearm == Init /\ [][NextRearm]_vars

(***************************************************************************)
(* SpecGone: the reminder scheduler with events deleted while their jobs   *)
(* are pending and events created afterwards.  gone holds the jobs that    *)
(* were pending when their event was deleted, each with the next id of the *)
(* table at that moment; when such a job runs, ran is set and silent tells *)
(* whether the run left the notification loops and the firing counts as    *)
(* they were.                                                              *)
(***************************************************************************)
GoneDates == {HourOffset + 1, FarDate}

DeleteGone ==
    \E u \in Users, g \in GameIds :
        /\ delete_game(u, g, NoFault)
        /\ gone' = gone \cup
                   {[job |-> j, ids |-> next_id, ran |-> FALSE, silent |-> FALSE] :
                       j \in {i \in jobs : i.data = g /\ g \notin DOMAIN games'}}
        /\ UNCHANGED <<race, seq, fed, run, listed, sent>>

FireGone ==
    \E j \in jobs :
        /\ send_reminder(j)
        /\ gone' = {IF x.job = j /\ ~x.ran
                    THEN [x EXCEPT !.ran = TRUE,
                                   !.silent = (fanout' = fanout /\ fired' = fired)]
                    ELSE x : x \in gone}
        /\ UNCHANGED <<race, seq, fed, run, listed, sent>>

NextGone ==
    \/ StartWizardUpTo(MaxGames) /\ UNCHANGED observers
    \/ FeedWizardWith(GoneDates, {0}) /\ UNCHANGED observers
    \/ DeleteGone
    \/ FireGone
    \/ Deliver /\ UNCHANGED observers
    \/ Advance /\ UNCHANGED observers

SpecGone == Init /\ [][NextGone]_vars

(***************************************************************************)
(* SpecWizard: the creation wizard under every kind of input at every      *)
(* step: texts that parse and texts that do not, start times before, at    *)
(* and after the present hour, the skip sentinel as the transport marks it *)
(* (a bot command) and unmarked, photos, texts outside any wizard; writes  *)
(* of the store that raise; the clock running.  A message that main()      *)
(* routes to no handler is dropped.  fed records the last message, the     *)
(* step of the wizard before and after it, and what the handler wrote;     *)
(* run follows one identity from the start of a wizard through a title, a  *)
(* start time in the future, a capacity and the skip sentinel twice.       *)
(***************************************************************************)
Title == <<"word", 1>>
Authors == 1..NumAuthors
WizardDates == {1, FarDate}
WizardCaps == {-1, 0, MaxCap}
CreateFaults == 0..2
DeleteFaults == 0..3

WizardInput(action) ==
    IF action \in {"None", "creating_game"} THEN {TextMessage(Title)}
    ELSE IF action = "setting_game_date"
         THEN {TextMessage(Title), PhotoMessage}
              \cup {TextMessage(<<"date", d>>) : d \in WizardDates}
    ELSE IF action = "setting_max_players"
         THEN {TextMessage(Title), TextMessage(<<"date", 1>>)}
              \cup {TextMessage(<<"int", c>>) : c \in WizardCaps}
    ELSE {TextMessage(Title), PhotoMessage,
          TextMessage(SkipText), CommandMessage(SkipText),
          TextMessage(<<"/SKIP", 0>>), CommandMessage(<<"/SKIP", 0>>)}

Fed(u, m, routed, fault) ==
    [user |-> u, text |-> m.text, photo |-> m.photo, routed |-> routed,
     fault |-> IF routed /\ last'.op = "create" THEN fault ELSE NoFault,
     at |-> now,
     before |-> user_data[u].action,
     after |-> user_data'[u].action,
     same |-> user_data'[u] = user_data[u],
     cleared |-> user_data'[u] = EmptyUserData,
     tried |-> routed /\ last'.op = "create",
     answer |-> IF routed THEN last'.res ELSE "Dropped",
     made |-> [g \in DOMAIN games' \ DOMAIN games |-> games'[g]],
     joined |-> players' \ players,
     jobbed |-> jobs' \ jobs]

\* The input that stage k of the observed run expects.
Expected(k, m) ==
    IF k = 0 THEN m.text = Title
    ELSE IF k = 1 THEN m.text[1] = "date" /\ m.text[2] > now
    ELSE IF k = 2 THEN m.text[1] = "int" /\ m.text[2] >= 0
    ELSE k \in {3, 4} /\ m.text # NoText /\ lower(m.text) = SkipText

RunStart(u) ==
    IF run.user \in {0, u}
    THEN [user |-> u, stage |-> 0, ids |-> next_id, cap |-> 0]
    ELSE run

RunFeed(u, m, routed, fault) ==
    IF run.user # u
    THEN run
    ELSE IF Expected(run.stage, m)
            /\ ~(routed /\ last'.op = "create" /\ fault # NoFault)
    THEN [run EXCEPT !.stage = @ + 1,
                     !.cap = IF run.stage = 2 THEN m.text[2] ELSE @]
    ELSE NoRun

StartAnew ==
    \E u \in Authors :
        /\ NoWizard
        /\ next_id <= ObservedGames
        /\ create_game_step1(u)
        /\ run' = RunStart(u)
        /\ UNCHANGED <<race, seq, gone, fed, listed, sent>>

FeedAny ==
    \E u \in Authors : \E m \in WizardInput(user_data[u].action) :
    \E fault \in CreateFaults :
        /\ Routed(m)
        /\ handle_message(u, m, fault)
        /\ fed' = Fed(u, m, TRUE, fault)
        /\ run' = RunFeed(u, m, TRUE, fault)
        /\ UNCHANGED <<race, seq, gone, listed, sent>>

\* main() has no handler for a text that is a command other than /start and
\* /menu (lines 613-617): nothing runs.
Drop ==
    \E u \in Authors : \E m \in WizardInput(user_data[u].action) :
        /\ ~Routed(m)
        /\ UNCHANGED <<store, timer, user_data, has_job_queue, fanout, last,
                       inflight>>
        /\ fed' = Fed(u, m, FALSE, NoFault)
        /\ run' = RunFeed(u, m, FALSE, NoFault)
        /\ UNCHANGED <<race, seq, gone, listed, sent>>

DeleteFaulty ==
    \E u \in Authors, g \in 1..NumAuthors : \E fault \in DeleteFaults :
        /\ delete_game(u, g, fault)
        /\ run' = IF games' # games THEN NoRun ELSE run
        /\ UNCHANGED <<race, seq, gone, fed, listed, sent>>

NextWizard ==
    \/ StartAnew
    \/ FeedAny
    \/ Drop
    \/ DeleteFaulty
    \/ Tick /\ UNCHANGED observers

SpecWizard == Init /\ [][NextWizard]_vars

(***************************************************************************)
(* SpecList: the list of upcoming events.  Events with start times within  *)
(* the hours of the clock are created while the clock runs, and the list   *)
(* is asked for at any hour.  The start times in the table are the local   *)
(* times that were typed in, and now is the local clock that               *)
(* schedule_reminders and send_reminder read; datetime('now') of SQLite is *)
(* the clock in UTC, which is behind or ahead of the local clock by the    *)
(* offset of the zone the process runs in.  listed records the hour of the *)
(* call on the local clock, the ids of the buttons in their order, and the *)
(* start times in the table at the call.                                   *)
(***************************************************************************)
UtcOffsets == (-MaxUtcOffset)..MaxUtcOffset
ListDates == 1..MaxTime

List ==
    \E u \in Users : \E z \in UtcOffsets : \E s \in Orderings(upcoming(now - z)) :
        /\ show_upcoming_games(u, now - z)
        /\ listed' = [at |-> now, ids |-> s,
                      table |-> [g \in DOMAIN games |-> strptime(games[g].game_date)]]
        /\ UNCHANGED <<race, seq, gone, fed, run, sent>>

NextList ==
    \/ StartWizard /\ UNCHANGED observers
    \/ FeedWizardWith(ListDates, {0}) /\ UNCHANGED observers
    \/ List
    \/ Tick /\ UNCHANGED observers

SpecList == Init /\ [][NextList]_vars

(***************************************************************************)
(* SpecFanout: the notification loops of send_reminder and delete_game,    *)
(* with send_message succeeding or raising at every turn.  An event is     *)
(* created, joined and deleted, its reminder job fires.  sent follows one  *)
(* loop from its start to its end: the recipients read at the start, the   *)
(* number of send_message calls per identity, the identities whose call    *)
(* raised, the number of calls made after the first one that raised, and   *)
(* the identities that got a reminder while they had no participant row.   *)
(* When the loop has ended, the next loop to start is followed.            *)
(***************************************************************************)
FanoutDates == {HourOffset + 1}

Key(t) == <<t.kind, t.game, t.copy>>
Keys(fo) == {Key(t) : t \in fo}

SentStart ==
    LET new == {t \in fanout' : Key(t) \notin Keys(fanout)} IN
    IF new # {} /\ (sent = NoLoop \/ sent.done)
    THEN LET t == CHOOSE x \in new : TRUE IN
         [NoLoop EXCEPT !.key = Key(t), !.rcpts = t.todo]
    ELSE sent

SentDeliver(t, r, ok) ==
    IF Key(t) = sent.key /\ ~sent.done
    THEN [sent EXCEPT !.tried[r] = @ + 1,
                      !.failed = IF ok THEN @ ELSE @ \cup {r},
                      !.later = IF sent.failed # {} THEN @ + 1 ELSE @,
                      !.stale = IF t.kind \in Kinds /\ ~is_user_joined(t.game, r)
                                THEN @ \cup {r}
                                ELSE @,
                      !.done = Key(t) \notin Keys(fanout')]
    ELSE sent

JoinFan ==
    \E u \in Users, g \in RaceIds :
        /\ book_game(u, g)
        /\ UNCHANGED observers

DeleteFan ==
    \E u \in Users, g \in RaceIds :
        /\ delete_game(u, g, NoFault)
        /\ sent' = SentStart
        /\ UNCHANGED <<race, seq, gone, fed, run, listed>>

FireFan ==
    \E j \in jobs :
        /\ send_reminder(j)
        /\ sent' = SentStart
        /\ UNCHANGED <<race, seq, gone, fed, run, listed>>

DeliverFan ==
    \E t \in fanout : \E r \in t.todo : \E ok \in BOOLEAN :
        /\ deliver(t, r, ok)
        /\ sent' = SentDeliver(t, r, ok)
        /\ UNCHANGED <<race, seq, gone, fed, run, listed>>

NextFanout ==
    \/ StartWizardUpTo(ObservedGames) /\ UNCHANGED observers
    \/ FeedWizardWith(FanoutDates, {0}) /\ UNCHANGED observers
    \/ JoinFan
    \/ DeleteFan
    \/ FireFan
    \/ DeliverFan
    \/ Advance /\ UNCHANGED observers

SpecFanout == Init /\ [][NextFanout]_vars

(***************************************************************************)
(* SpecLeave: SpecFanout with cancel requests, which like the delete       *)
(* requests may be handled between two turns of a notification loop.       *)
(***************************************************************************)
CancelFan ==
    \E u \in Users, g \in RaceIds :
        /\ cancel_booking(u, g)
        /\ UNCHANGED observers

NextLeave ==
    \/ NextFanout
    \/ CancelFan

SpecLeave == Init /\ [][NextLeave]_vars

(***************************************************************************)
(* SpecAbandon: SpecWizard without faults and with the clock standing      *)
(* still, but with the button 'create_game' pressed at any step of a       *)
(* wizard in progress: the run in progress is abandoned and a new one      *)
(* starts.                                                                 *)
(***************************************************************************)
StartAgain ==
    \E u \in Authors :
        /\ \A v \in Users \ {u} : user_data[v].action = "None"
        /\ next_id <= ObservedGames
        /\ create_game_step1(u)
        /\ UNCHANGED observers

FeedAgain ==
    \E u \in Authors : \E m \in WizardInput(user_data[u].action) :
        /\ Routed(m)
        /\ handle_message(u, m, NoFault)
        /\ fed' = Fed(u, m, TRUE, NoFault)
        /\ UNCHANGED <<race, seq, gone, run, listed, sent>>

NextAbandon ==
    \/ StartAgain
    \/ FeedAgain
    \/ Drop

SpecAbandon == Init /\ [][NextAbandon]_vars

(***************************************************************************)
(* The claims.                                                             *)
(***************************************************************************)

\* C1: an event with capacity C > 0 never has more than C participant
\* records, under any interleaving of join, cancel and delete requests, join
\* callbacks in flight included.
C1_CapacityNeverExceeded ==
    \A g \in DOMAIN games :
        games[g].max_players > 0 => current_players(g) <= games[g].max_players

\* A race of two callbacks on a full event of capacity 2 has ended: both
\* were answered Full.
C1_Witness ==
    /\ RaceDone /\ race.cap = MaxCap /\ race.full = 2
    /\ current_players(race.game) = MaxCap

\* C2: two join callbacks of identities that have not joined, racing for the
\* one seat left of an event with capacity C > 0, get one Ok and one Full.
C2_OneSeatOneOk ==
    (/\ RaceDone /\ race.cap > 0 /\ race.n = 2 /\ race.news = 2
     /\ race.start = race.cap - 1)
    => (race.ok = 1 /\ race.full = 1 /\ current_players(race.game) = race.cap)

C2_Witness ==
    /\ RaceDone /\ race.cap = 2 /\ race.n = 2 /\ race.news = 2 /\ race.start = 1
    /\ race.ok = 1

\* C3, as stated: of N >= C racing join callbacks on an event with capacity
\* C > 0 exactly C are answered Ok, the others Full or AlreadyJoined.
C3_ExactlyCapacityOk ==
    (RaceDone /\ race.cap > 0 /\ race.n >= race.cap)
    => (race.ok = race.cap /\ race.full + race.dup = race.n - race.cap)

\* C3, amended: of N >= C racing join callbacks of distinct identities on an
\* event with capacity C > 0 and k participants at the start of the race
\* exactly C - k are answered Ok, the others Full or AlreadyJoined.
C3_ExactlyFreeSeatsOk ==
    (RaceDone /\ race.cap > 0 /\ race.n >= race.cap)
    => (/\ race.ok = race.cap - race.start
        /\ race.full + race.dup = race.n - race.ok
        /\ current_players(race.game) = race.cap)

\* Three callbacks raced for the one free seat of an event of capacity 2.
C3_Witness ==
    /\ RaceDone /\ race.cap = 2 /\ race.n = 3 /\ race.start = 1
    /\ race.ok = 1 /\ race.full + race.dup = 2

\* C4: a join on an existing event of capacity 0 is never answered Full, and
\* an identity that has not joined is answered Ok and inserted.
C4_UnboundedNeverFull ==
    [][\A g \in DOMAIN games :
          (/\ games[g].max_players = 0
           /\ last'.op = "join" /\ last'.game = g
           /\ (last' # last \/ players' # players))
          => (/\ last'.res # "Full"
              /\ <<g, last'.user>> \notin players
                   => (last'.res = "Ok" /\ <<g, last'.user>> \in players'))]_vars

\* Every identity has joined an event of capacity 0, more than any positive
\* capacity of the model.
C4_Witness ==
    \E g \in DOMAIN games :
        /\ games[g].max_players = 0
        /\ current_players(g) = NumUsers
        /\ current_players(g) > MaxCap
        /\ last.op = "join" /\ last.game = g /\ last.res = "Ok"

\* An id that was assigned and is no longer in the table: a deleted event.
Deleted(g) == g < next_id /\ g \notin DOMAIN games

\* C5: once an event is deleted, no participant record and no reminder
\* record with its id remains, and a lookup, join or cancel on that id is
\* answered NotFound.
C5_DeletedIsNotFound ==
    \A g \in GameIds :
        Deleted(g) =>
            /\ \A p \in players : p[1] # g
            /\ \A r \in reminders : r.game_id # g
            /\ (last.game = g /\ last.op \in {"get", "join", "cancel"})
                 => last.res = "NotFound"

\* C6: a delete request of an identity that is not the creator of an
\* existing event is answered NotCreator and changes neither the event, nor
\* the participants, nor the reminders; an event leaves the table only in a
\* delete request of its creator.
C6_OnlyCreatorDeletes ==
    [][/\ \A g \in DOMAIN games :
            g \notin DOMAIN games'
              => last' = Answer("delete", games[g].creator_id, g, "Ok")
       /\ \A g \in DOMAIN games :
            (/\ last' # last
             /\ last'.op = "delete" /\ last'.game = g
             /\ last'.user # games[g].creator_id)
            => (/\ last'.res = "NotCreator"
                /\ UNCHANGED <<games, players, reminders, jobs>>)]_vars

\* A participant who is not the creator asked for the deletion of an event
\* with pending reminder jobs.
C6_Witness ==
    /\ last.op = "delete" /\ last.res = "NotCreator"
    /\ last.game \in DOMAIN games
    /\ last.user # games[last.game].creator_id
    /\ <<last.game, last.user>> \in players
    /\ \E j \in jobs : j.data = last.game

C8_CreatorIsParticipant ==
    \A g \in DOMAIN games : is_user_joined(g, games[g].creator_id)


\* The fire-time of offset k of event g, from the start time read at arming.
FireTime(g, k) == armed[g].date - Offset(k)

PendingJobs(g, k) == {j \in jobs : j.kind = k /\ j.data = g}

\* C9: when schedule_reminders runs for an event, an offset whose fire-time
\* is not strictly after that moment gets no job and never fires; an offset
\* whose fire-time is strictly after it fires at most once, and does fire
\* unless the event is deleted first.
C9_NotArmedOrOnce ==
    \A g \in DOMAIN armed : \A k \in Kinds :
        armed[g].at >= 0 =>
            /\ fired[<<k, g>>] <= 1
            /\ FireTime(g, k) <= armed[g].at
                 => (fired[<<k, g>>] = 0 /\ PendingJobs(g, k) = {})
            /\ FireTime(g, k) > armed[g].at
                 => (fired[<<k, g>>] = 1 \/ PendingJobs(g, k) # {}
                     \/ g \notin DOMAIN games)

C9_FiresOnce ==
    /\ []C9_NotArmedOrOnce
    /\ \A g \in 1..(MaxGames + 1) : \A k \in Kinds :
          (armed[g].at >= 0 /\ FireTime(g, k) > armed[g].at)
            ~> (fired[<<k, g>>] = 1 \/ g \notin DOMAIN games)

\* An event was created at the very hour of its day-before reminder: that
\* offset was skipped, the hour-before reminder has fired.
C9_Witness ==
    \E g \in DOMAIN games :
        /\ armed[g].at >= 0
        /\ FireTime(g, "1day") = armed[g].at
        /\ fired[<<"1day", g>>] = 0
        /\ fired[<<"1hour", g>>] = 1
        /\ now >= FireTime(g, "1hour")

\* C10: for every (event id, offset kind) at most one reminder firing ever
\* occurs, also when schedule_reminders runs more than once for the event.
C10_AtMostOneFiring ==
    \A g \in 1..(MaxGames + 1) : \A k \in Kinds : fired[<<k, g>>] <= 1


\* C11: a job whose event was deleted while the job was pending sends
\* nothing when it runs: it starts no notification loop and counts as no
\* firing, also when events were created after the deletion.
C11_GoneJobIsSilent == \A x \in gone : x.ran => x.silent

\* A job of a deleted event has run after a later event was created, and
\* that later event exists.
C11_Witness ==
    \E x \in gone :
        /\ x.ran /\ x.silent
        /\ \E g \in DOMAIN games : g >= x.ids
        /\ fired[<<x.job.kind, x.job.data>>] = 0


\* C12: after the start of a wizard and, in order, a title, a start time in
\* the future, a capacity n, the skip sentinel and the skip sentinel again
\* from the same identity, an event exists with that title, capacity n, an
\* empty description, no media, that identity as its creator and as its
\* only participant.
C12_FiveInputsCommit ==
    run.stage = 5 =>
        \E g \in DOMAIN games :
            /\ g >= run.ids
            /\ games[g].game_name = Title
            /\ games[g].max_players = run.cap
            /\ games[g].description = EmptyText
            /\ games[g].photo_id = NoPhoto
            /\ games[g].creator_id = run.user
            /\ get_game_participants(g) = {run.user}


\* C13: an input at the start-time step that is not a text in the format
\* DD.MM.YYYY HH:MM, and an input at the capacity step that is not a text
\* naming an integer n >= 0, leave the wizard at its step with every field
\* as it was, and create no event.
C13_InvalidInputStays ==
    /\ (fed.before = "setting_game_date" /\ fed.text[1] # "date")
         => (fed.same /\ DOMAIN fed.made = {} /\ fed.joined = {})
    /\ (fed.before = "setting_max_players"
          /\ ~(fed.text[1] = "int" /\ fed.text[2] >= 0))
         => (fed.same /\ DOMAIN fed.made = {} /\ fed.joined = {})

\* A free text reached the handler at the start-time step and was answered
\* with the format error; the title entered before is still there.
C13_Witness ==
    /\ fed.routed /\ fed.before = "setting_game_date" /\ fed.text = Title
    /\ fed.answer = "BadDate" /\ last.res = "BadDate"
    /\ user_data[fed.user].action = "setting_game_date"
    /\ user_data[fed.user].game_name = Title

\* C14: a well-formed start time that is not strictly after the present hour
\* is refused at the start-time step, and every event created has a start
\* time strictly after the hour of its creation.
C14_PastDateRejected ==
    /\ (/\ fed.routed /\ fed.before = "setting_game_date"
         /\ fed.text[1] = "date" /\ fed.text[2] <= fed.at)
        => (fed.after = "setting_game_date" /\ fed.same)
    /\ \A g \in DOMAIN fed.made : strptime(fed.made[g].game_date) > fed.at

\* C17: at the description step a free text and the skip sentinel both move
\* the wizard to the media step, and an event is committed only by an input
\* at the media step.
C17_DescriptionThenMedia ==
    /\ (/\ fed.before = "setting_description" /\ fed.text # NoText
         /\ (fed.text = Title \/ lower(fed.text) = SkipText))
        => fed.after = "setting_photo"
    /\ DOMAIN fed.made # {} => fed.before = "setting_photo"

\* C18: a photo at the media step commits the draft as an event with that
\* photo as its media reference and clears the wizard state; a text other
\* than the skip sentinel at the media step changes nothing.
C18_PhotoCompletes ==
    /\ (/\ fed.routed /\ fed.before = "setting_photo" /\ fed.photo # NoPhoto
         /\ fed.fault = NoFault)
        => (/\ DOMAIN fed.made # {}
            /\ \A g \in DOMAIN fed.made : fed.made[g].photo_id = fed.photo
            /\ fed.cleared)
    /\ (/\ fed.routed /\ fed.before = "setting_photo" /\ fed.photo = NoPhoto
         /\ fed.text # NoText /\ lower(fed.text) # SkipText)
        => (fed.same /\ DOMAIN fed.made = {})

\* The start time of a row of table games.
DateOf(row) == strptime(row.game_date)

\* C19: after create_game_in_db has run, with or without an exception, the
\* wizard state of the identity is empty; jobs are armed only for an event
\* that was written with its creator as participant; and with a job queue
\* the jobs of such an event are armed, one for each offset whose fire-time
\* is after the present hour.
C19_CommitArmsAndClears ==
    fed.tried =>
        /\ fed.cleared
        /\ \A j \in fed.jobbed :
              /\ j.data \in DOMAIN fed.made
              /\ <<j.data, fed.user>> \in fed.joined
        /\ \A g \in DOMAIN fed.made :
              (<<g, fed.user>> \in fed.joined /\ has_job_queue) =>
                 \A k \in Kinds :
                    DateOf(fed.made[g]) - Offset(k) > fed.at =>
                       \E j \in fed.jobbed :
                          /\ j.kind = k /\ j.data = g
                          /\ j.when = DateOf(fed.made[g]) - Offset(k)

\* The insert of the participant raised at the end of a wizard: the event
\* is written, no job is armed, the wizard state is empty.
C19_Witness ==
    /\ fed.tried /\ fed.fault = 2 /\ fed.before = "setting_photo"
    /\ DOMAIN fed.made # {} /\ fed.jobbed = {} /\ has_job_queue
    /\ user_data[fed.user] = EmptyUserData
    /\ last.op = "create" /\ last.res = "Error"

\* C20: a create_game_in_db in which a write raised has written neither the
\* event nor the participant, and after a delete_game in which a write
\* raised the event and its creator's participant row are still there.
C20_NoPartialState ==
    /\ (fed.tried /\ fed.fault # NoFault)
        => (DOMAIN fed.made = {} /\ fed.joined = {})
    /\ (last.op = "delete" /\ last.res = "Error")
        => (/\ last.game \in DOMAIN games
            /\ is_user_joined(last.game, last.user))


\* The events on the last list.
Listed == {listed.ids[i] : i \in DOMAIN listed.ids}

\* C15: the list holds exactly the events whose start time was not before
\* the hour of the call, in ascending order of start time.
C15_ListIsUpcoming ==
    /\ Listed = {g \in DOMAIN listed.table : listed.table[g] >= listed.at}
    /\ \A i, j \in DOMAIN listed.ids :
          i < j => listed.table[listed.ids[i]] <= listed.table[listed.ids[j]]


\* C16: in a notification loop no identity gets more than one send_message,
\* an identity that was not among the recipients read at the start gets
\* none, and when the loop has ended every recipient has got exactly one,
\* whichever of the calls raised.
C16_EachRecipientOnce ==
    \A r \in Users :
        /\ sent.tried[r] <= 1
        /\ r \notin sent.rcpts => sent.tried[r] = 0
        /\ (sent.done /\ r \in sent.rcpts) => sent.tried[r] = 1

\* A reminder loop over every identity has ended; a call raised and two
\* more calls were made after it.
C16_Witness ==
    /\ sent.done /\ sent.key[1] \in Kinds
    /\ sent.rcpts = Users /\ sent.failed # {} /\ sent.later = NumUsers - 1
    /\ \A r \in Users : sent.tried[r] = 1


\* C21: an event committed by the skip sentinel at the description step has
\* an empty description, whatever was entered in a run of the wizard that
\* the identity abandoned before.
C21_SkippedDescriptionIsEmpty ==
    (/\ fed.routed /\ fed.before = "setting_description"
     /\ fed.text # NoText /\ lower(fed.text) = SkipText)
    => \A g \in DOMAIN fed.made : fed.made[g].description = EmptyText


\* C22: every send_message of a reminder loop goes to an identity that has
\* a participant row of the event at that moment, also when a cancel or a
\* delete was handled between two turns of the loop.
C22_RemindersToParticipants == sent.stale = {}

====
